---- MODULE Spec2Model ----
(***************************************************************************)
(* Belief graph of src/belief_graph.py: one global networkx DiGraph G whose *)
(* nodes are beliefs (entity, predicate, value, confidence, status) and    *)
(* whose edges carry relation = "supports" | "contradicts".                *)
(*                                                                         *)
(* Confidences are floats with three decimals; the model keeps them as     *)
(* integers in thousandths (0.82 is 820).  The attributes source and       *)
(* timestamp are written by add_belief and read by no operation; they are  *)
(* left out of the state.                                                  *)
(*                                                                         *)
(* Every public function is one call: the call starts at pc = "idle" and   *)
(* the store is back at pc = "idle" when it has returned or raised.  The   *)
(* body of add_belief with auto_check is executed in steps (detect,        *)
(* resolve, decay, propagate, archive) so that the states inside one call  *)
(* are visible.                                                            *)
(***************************************************************************)
EXTENDS Integers, Sequences, FiniteSets, TLC

\* ------------------------------------------------------------------ inputs

\* Node ids in the order in which new ids are handed out.  The code compares
\* ids for equality only, so the names are immaterial.
IdSeq == <<"n1", "n2", "n3", "n4", "n5">>

Ids == {IdSeq[k] : k \in 1..Len(IdSeq)}

None == "None"

\* (entity, predicate, value) triples offered to add_belief.
Facts ==
  { [entity |-> "e1", predicate |-> "p1", value |-> "v1"],
    [entity |-> "e1", predicate |-> "p1", value |-> "v2"],
    [entity |-> "e1", predicate |-> "p2", value |-> "v1"],
    [entity |-> "e2", predicate |-> "p1", value |-> "v1"] }

\* Facts offered in the call sequences that start from the empty graph.
SeqFacts ==
  { [entity |-> "e1", predicate |-> "p1", value |-> "v1"],
    [entity |-> "e1", predicate |-> "p1", value |-> "v2"],
    [entity |-> "e2", predicate |-> "p1", value |-> "v1"] }

\* (entity, predicate) pairs offered to ask and compute_reliability.
Topics ==
  { <<f.entity, f.predicate>> : f \in Facts } \cup { <<"e2", "p2">> }

\* Confidences offered to add_belief, in thousandths.
ConfInputs == {300, 400, 500, 900}

\* Confidences offered in the call sequences that start from the empty graph.
SeqConfs == {300, 500, 900}

Statuses == {"active", "outdated", "archived", "shadow_history"}

StatusInputs == {"active", "outdated"}

\* Number of public calls made in one behaviour.
MaxCalls == 3

\* Least number of nested propagate_effects frames the interpreter allows
\* before it raises RecursionError.  The number it does allow is
\* sys.getrecursionlimit() minus the depth of the caller, which the module
\* does not control: beyond RecursionLimit frames every further call of
\* propagate_effects either fits or raises.  RecursionLimit is at least the
\* number of ids, so that only a walk that revisits a node gets that deep.
RecursionLimit == 5

\* The decays of one node within one self_correct are counted up to DecayCap.
DecayCap == 2

\* Number of supports edges of a drawn support graph.
MaxEdges == 3

\* ----------------------------------------------------------------- numbers

\* Thousandths k with 9k/10 ending in .5 for which the double product
\* (k/1000) * 0.9 lies above the tie, so that round(_, 3) goes up.
TieUp ==
  { 5, 25, 35, 45, 55, 65, 75, 85, 95, 105, 115, 125, 135, 145, 155, 165,
    175, 185, 195, 215, 225, 245, 255, 265, 275, 285, 295, 305, 315, 325,
    335, 355, 365, 375, 385, 395, 405, 425, 435, 445, 455, 465, 495, 505, 515,
    525, 535, 545, 555, 635, 645, 655, 665, 675, 685, 765, 775, 785, 795,
    805, 905, 915, 925, 935 }

\* Tenths of the decay factor of the demoted node (factor = 0.6).
LoserFactor == 6

\* Tenths of the decay factor of a supported node (factor = 0.9).
ChildFactor == 9

\* The decay with the factor applied the wrong way round: old_conf / factor.
Round3Wrong(k, tenths) == (k * 10) \div tenths

\* round(old_conf * factor, 3) on thousandths, factor = tenths / 10.
Round3(k, tenths) ==
  LET ex  == k * tenths
      fl  == ex \div 10
      rem == ex % 10
  IN  IF rem < 5 THEN fl
      ELSE IF rem > 5 THEN fl + 1
      ELSE IF k \in TieUp THEN fl + 1 ELSE fl

\* ------------------------------------------------------------------- state

VARIABLES
  nodes,     \* G.nodes in iteration (insertion) order: sequence of ids
  attr,      \* G.nodes[n]: the attribute dict of node n
  adj,       \* G.adj[n]: out-edges of n in insertion order, with relation
  pc,        \* position inside the running call, "idle" between calls
  new,       \* new_node_id of the running detect_and_handle_contradictions
  i,         \* index into nodes of the detector's loop
  old,       \* node_id handed to self_correct as old_node
  loser,     \* loser of the running self_correct
  stack,     \* innermost frames of propagate_effects: [node, k, depth],
             \* k = next out-edge index, depth = frames up to this one
  op,        \* the last call and its arguments
  pre,       \* the store at entry to the last call
  outcome,   \* "running", "ok", "KeyError" or "RecursionError"
  ret,       \* value returned by the last call
  resolved,  \* old_node of every self_correct run by the last call, in order
  decays,    \* per self_correct: how often reduce_confidence hit each node,
             \* counted up to DecayCap
  at0,       \* the attribute dicts at entry to the running self_correct
  seen,      \* what the calls so far did: "dup", "unknown", "status", "noauto"
  calls,     \* number of calls started
  last       \* the call before the last one: arguments, entry store, result

store == <<nodes, attr, adj>>
frame == <<new, i, old, loser, stack>>
ghost == <<op, pre, outcome, ret, resolved, decays, at0, seen, calls, last>>
vars == <<nodes, attr, adj, pc, new, i, old, loser, stack,
          op, pre, outcome, ret, resolved, decays, at0, seen, calls, last>>

\* A node created by add_edge alone has an empty attribute dict.
NoAttrs ==
  [has |-> FALSE, entity |-> None, predicate |-> None, value |-> None,
   confidence |-> 0, status |-> None]

NodeSet == {nodes[k] : k \in 1..Len(nodes)}

InGraph(n) == n \in NodeSet

\* The id a caller uses for a node that is not in the graph yet.
Fresh == IdSeq[Len(nodes) + 1]

HasFresh == Len(nodes) < Len(IdSeq)

Snapshot == [nodes |-> nodes, attr |-> attr, adj |-> adj]

EdgeRel(a, u, v) ==
  IF \E k \in 1..Len(a[u]) : a[u][k].to = v
  THEN (CHOOSE e \in {a[u][k] : k \in 1..Len(a[u])} : e.to = v).relation
  ELSE None

\* f extended to the nodes ns, new keys mapped to d.
Ext(f, ns, d) ==
  [n \in DOMAIN f \cup {ns[k] : k \in 1..Len(ns)} |->
     IF n \in DOMAIN f THEN f[n] ELSE d]

\* ------------------------------------------------------- networkx DiGraph

\* G.add_node(n, **a): a new key goes to the end of G.nodes, an existing
\* key keeps its place and has its attribute dict updated.
add_node(ns, at, n, a) ==
  [nodes |-> IF \E k \in 1..Len(ns) : ns[k] = n THEN ns ELSE Append(ns, n),
   attr  |-> [m \in DOMAIN at \cup {n} |-> IF m = n THEN a ELSE at[m]]]

\* Nodes after G.add_edge(u, v): a missing end point is created with an
\* empty attribute dict, u before v.
EdgeNodes(ns, u, v) ==
  LET hasU == \E k \in 1..Len(ns) : ns[k] = u
      n1   == IF hasU THEN ns ELSE Append(ns, u)
      hasV == \E k \in 1..Len(n1) : n1[k] = v
  IN  IF hasV THEN n1 ELSE Append(n1, v)

\* G.adj[u] after G.add_edge(u, v, relation=r): an existing edge u -> v
\* keeps its place and has its relation overwritten.
add_edge(a0, u, v, r) ==
  LET a == Ext(a0, <<u, v>>, <<>>)
  IN
  IF \E k \in 1..Len(a[u]) : a[u][k].to = v
  THEN [a EXCEPT ![u] =
          [k \in 1..Len(a[u]) |->
             IF a[u][k].to = v THEN [to |-> v, relation |-> r] ELSE a[u][k]]]
  ELSE [a EXCEPT ![u] = Append(a[u], [to |-> v, relation |-> r])]

\* ------------------------------------------------------------ pure parts

\* The detector's test without the comparison of the predicates.
ConflictsWrong(at, n, newId) ==
  /\ n # newId
  /\ at[n].status \in {"active", "outdated"}
  /\ at[n].entity = at[newId].entity
  /\ at[n].value # at[newId].value

\* Candidate test of the detector's loop for node n against the new node.
Conflicts(at, n, newId) ==
  /\ n # newId
  /\ at[n].status \in {"active", "outdated"}
  /\ at[n].entity = at[newId].entity
  /\ at[n].predicate = at[newId].predicate
  /\ at[n].value # at[newId].value

\* Index of the next node at or after position k the detector acts on, 0 if
\* the loop runs to its end.
NextMatch(ns, at, k, newId) ==
  IF \E j \in k..Len(ns) : Conflicts(at, ns[j], newId)
  THEN CHOOSE j \in k..Len(ns) :
         /\ Conflicts(at, ns[j], newId)
         /\ \A m \in k..(j - 1) : ~Conflicts(at, ns[m], newId)
  ELSE 0

\* self_correct with a strict comparison: a tie goes to the old node.
NewWinsWrong(at, newId, oldId) == at[newId].confidence > at[oldId].confidence

\* self_correct's choice: the new node wins on new_conf >= old_conf.
NewWins(at, newId, oldId) == at[newId].confidence >= at[oldId].confidence

\* archive_belief without its first branch: an outdated node stays outdated.
ArchivedStatusWrong(s) ==
  IF s = "archived" THEN "shadow_history"
  ELSE s

\* archive_belief whose second test reads the status again: an outdated node
\* falls through both branches in one call.
ArchivedStatusTwice(s) ==
  IF s \in {"outdated", "archived"} THEN "shadow_history"
  ELSE s

\* Status after archive_belief.
ArchivedStatus(s) ==
  IF s = "outdated" THEN "archived"
  ELSE IF s = "archived" THEN "shadow_history"
  ELSE s

\* Positions in G.nodes of ask's candidates.
Candidates(ns, at, predicate, entity) ==
  { k \in 1..Len(ns) :
      /\ at[ns[k]].entity = entity
      /\ at[ns[k]].predicate = predicate
      /\ at[ns[k]].status = "active" }

\* ask(predicate, entity) on a store: "KeyError" when the comprehension
\* meets a node without attributes, None without candidates, else the value
\* of the first candidate of maximum confidence.
Ask(ns, at, predicate, entity) ==
  LET c == Candidates(ns, at, predicate, entity)
  IN  IF \E k \in 1..Len(ns) : ~at[ns[k]].has THEN "KeyError"
      ELSE IF c = {} THEN None
      ELSE at[ns[CHOOSE k \in c :
                   /\ \A m \in c : at[ns[m]].confidence <= at[ns[k]].confidence
                   /\ \A m \in c : at[ns[m]].confidence = at[ns[k]].confidence
                                     => k <= m]].value

\* A cluster of the trusted beliefs only.
ClusterWrong(ns, at, entity, predicate) ==
  { k \in 1..Len(ns) :
      /\ at[ns[k]].entity = entity
      /\ at[ns[k]].predicate = predicate
      /\ at[ns[k]].status = "active" }

\* Positions in G.nodes of compute_reliability's cluster: the comparisons
\* use data.get, so a node without attributes is simply no member.
Cluster(ns, at, entity, predicate) ==
  { k \in 1..Len(ns) :
      /\ at[ns[k]].entity = entity
      /\ at[ns[k]].predicate = predicate }

\* Result of compute_reliability on an empty cluster (a bare return).
NoScore == -1

\* Maximum confidences m for which round(m / 1.6, 3) falls on a tie and the
\* float quotient lies above it, so that Python rounds up.  Ties need an
\* even 10 + 3 * c; up to five contradictions that is c = 2 alone.
ScoreTieUp ==
  { 4, 68, 132, 140, 252, 260, 268, 276, 404, 508, 516, 524, 532, 540,
    548, 556, 908, 916, 924, 932 }

\* round(max_conf / (1 + 0.3 * contradictions), 3) on thousandths.
Score(m, c) ==
  LET den == 10 + 3 * c
      num == 10 * m
      fl  == num \div den
      rem == num % den
  IN  IF 2 * rem < den THEN fl
      ELSE IF 2 * rem > den THEN fl + 1
      ELSE IF m \in ScoreTieUp THEN fl + 1 ELSE fl

\* compute_reliability(entity, predicate) on a store.
Reliability(ns, at, entity, predicate) ==
  LET cluster == Cluster(ns, at, entity, predicate)
      active_confs == { k \in cluster : at[ns[k]].status = "active" }
      max_conf ==
        IF active_confs = {} THEN 0
        ELSE at[ns[CHOOSE k \in active_confs :
                     \A m \in active_confs :
                       at[ns[m]].confidence <= at[ns[k]].confidence]].confidence
      values == { at[ns[k]].value : k \in cluster }
      contradictions == Cardinality(values) - 1
  IN  IF cluster = {} THEN NoScore
      ELSE Score(max_conf, contradictions)

\* -------------------------------------------------------------- the calls

Idle == pc = "idle" /\ calls < MaxCalls

\* Return or raise: back to the caller.
Finish(result) ==
  /\ pc' = "idle"
  /\ outcome' = result

\* Bookkeeping at the start of a call; marks records what was unusual in it.
Enter(call, marks) ==
  /\ op' = call
  /\ pre' = Snapshot
  /\ calls' = calls + 1
  /\ resolved' = <<>>
  /\ decays' = <<>>
  /\ at0' = attr
  /\ seen' = seen \cup marks
  /\ last' = [op |-> op, pre |-> pre, outcome |-> outcome, ret |-> ret]

\* add_belief(node_id, entity, predicate, value, confidence, status=...,
\* auto_check=...): G.add_node, then the detector when auto_check is set.
add_belief(id, f, c, st, auto) ==
  /\ Idle
  /\ id \in NodeSet \/ (HasFresh /\ id = Fresh)
  /\ Enter([name |-> "add_belief", id |-> id, fact |-> f, confidence |-> c,
            status |-> st, auto_check |-> auto],
           (IF id \in NodeSet /\ attr[id].has THEN {"dup"} ELSE {})
             \cup (IF st # "active" THEN {"status"} ELSE {})
             \cup (IF auto THEN {} ELSE {"noauto"}))
  /\ LET g == add_node(nodes, attr, id,
                       [has |-> TRUE, entity |-> f.entity,
                        predicate |-> f.predicate, value |-> f.value,
                        confidence |-> c, status |-> st])
     IN  /\ nodes' = g.nodes
         /\ attr' = g.attr
  /\ adj' = Ext(adj, <<id>>, <<>>)
  /\ ret' = None
  /\ IF auto
     THEN /\ pc' = "detect"
          /\ outcome' = "running"
          /\ new' = id
          /\ i' = 1
          /\ UNCHANGED <<old, loser, stack>>
     ELSE /\ Finish("ok")
          /\ UNCHANGED frame

\* add_support_edge(parent, child): G.add_edge(parent, child,
\* relation="supports").
add_support_edge(parent, child) ==
  /\ Idle
  /\ LET ns == EdgeNodes(nodes, parent, child)
     IN  /\ nodes' = ns
         /\ attr' = Ext(attr, ns, NoAttrs)
         /\ adj' = add_edge(adj, parent, child, "supports")
  /\ Enter([name |-> "add_support_edge", parent |-> parent, child |-> child],
           IF parent \in NodeSet /\ child \in NodeSet THEN {} ELSE {"unknown"})
  /\ ret' = None
  /\ Finish("ok")
  /\ UNCHANGED frame

\* Ids a caller can pass for a node: one in the graph, or the next new one.
CallerIds == NodeSet \cup (IF HasFresh THEN {Fresh} ELSE {})

\* Second id of an edge call when the first one is new as well.
Fresh2 == IdSeq[Len(nodes) + 2]

\* Arguments of an edge call: known ids, the next new id, or two new ids.
EdgeArgs ==
  (CallerIds \X CallerIds)
    \cup (IF Len(nodes) + 2 <= Len(IdSeq) THEN {<<Fresh, Fresh2>>} ELSE {})

\* archive_belief(node_id) called by the user on a node of the graph.
archive_belief(id) ==
  /\ Idle
  /\ id \in NodeSet
  /\ Enter([name |-> "archive_belief", id |-> id], {})
  /\ ret' = None
  /\ attr' = [attr EXCEPT ![id].status = ArchivedStatus(attr[id].status)]
  /\ UNCHANGED <<nodes, adj, frame>>
  /\ Finish("ok")

\* ask that settles the topic while it answers: the active candidates it
\* does not return are marked outdated.
askWrong(predicate, entity) ==
  /\ Idle
  /\ Enter([name |-> "ask", predicate |-> predicate, entity |-> entity], {})
  /\ LET r == Ask(nodes, attr, predicate, entity)
     IN  IF r = "KeyError"
         THEN /\ Finish("KeyError")
              /\ ret' = None
              /\ attr' = attr
         ELSE /\ Finish("ok")
              /\ ret' = r
              /\ attr' = [n \in DOMAIN attr |->
                            IF /\ attr[n].entity = entity
                               /\ attr[n].predicate = predicate
                               /\ attr[n].status = "active"
                               /\ attr[n].value # r
                            THEN [attr[n] EXCEPT !.status = "outdated"]
                            ELSE attr[n]]
  /\ UNCHANGED <<nodes, adj, frame>>

\* ask(predicate, entity) called by the user.
ask(predicate, entity) ==
  /\ Idle
  /\ Enter([name |-> "ask", predicate |-> predicate, entity |-> entity], {})
  /\ LET r == Ask(nodes, attr, predicate, entity)
     IN  IF r = "KeyError"
         THEN /\ Finish("KeyError")
              /\ ret' = None
         ELSE /\ Finish("ok")
              /\ ret' = r
  /\ UNCHANGED <<store, frame>>

\* compute_reliability(entity, predicate) called by the user.
compute_reliability(entity, predicate) ==
  /\ Idle
  /\ Enter([name |-> "compute_reliability", predicate |-> predicate,
            entity |-> entity], {})
  /\ ret' = Reliability(nodes, attr, entity, predicate)
  /\ Finish("ok")
  /\ UNCHANGED <<store, frame>>

\* ------------------------------------------- add_belief with auto_check

\* detect_and_handle_contradictions, one turn of the loop up to the call of
\* self_correct: skip the nodes that are no conflict, record the contradicts
\* edge for the next one that is; return when the loop is exhausted.
detect_and_handle_contradictions ==
  /\ pc = "detect"
  /\ LET j == NextMatch(nodes, attr, i, new)
     IN  IF j = 0
         THEN /\ Finish("ok")
              /\ UNCHANGED <<store, frame, resolved, decays, at0>>
         ELSE /\ adj' = add_edge(adj, new, nodes[j], "contradicts")
              /\ i' = j
              /\ old' = nodes[j]
              /\ resolved' = Append(resolved, nodes[j])
              /\ decays' = [n \in NodeSet |-> 0]
              /\ at0' = attr
              /\ pc' = "resolve"
              /\ UNCHANGED <<nodes, attr, new, loser, stack, outcome>>
  /\ UNCHANGED <<op, pre, ret, seen, calls, last>>

\* self_correct that demotes the loser only when it is still active.
self_correctWrong ==
  /\ pc = "resolve"
  /\ LET w == IF NewWins(attr, new, old) THEN new ELSE old
         l == IF NewWins(attr, new, old) THEN old ELSE new
     IN  /\ attr' = [attr EXCEPT ![w].status = "active",
                                 ![l].status = IF @ = "active" THEN "outdated"
                                               ELSE @]
         /\ loser' = l
  /\ pc' = "decay"
  /\ UNCHANGED <<nodes, adj, new, i, old, stack, ghost>>

\* self_correct up to the status updates: pick winner and loser, force the
\* winner active and the loser outdated.
self_correct ==
  /\ pc = "resolve"
  /\ LET w == IF NewWins(attr, new, old) THEN new ELSE old
         l == IF NewWins(attr, new, old) THEN old ELSE new
     IN  /\ attr' = [attr EXCEPT ![w].status = "active",
                                 ![l].status = "outdated"]
         /\ loser' = l
  /\ pc' = "decay"
  /\ UNCHANGED <<nodes, adj, new, i, old, stack, ghost>>

\* reduce_confidence(loser) of self_correct, then the call of
\* propagate_effects(loser).
reduce_confidence ==
  /\ pc = "decay"
  /\ attr' = [attr EXCEPT ![loser].confidence =
                            Round3(attr[loser].confidence, LoserFactor)]
  /\ decays' = [decays EXCEPT ![loser] = @ + 1]
  /\ stack' = <<[node |-> loser, k |-> 1, depth |-> 1]>>
  /\ pc' = "propagate"
  /\ UNCHANGED <<nodes, adj, new, i, old, loser, op, pre, outcome, ret,
                 resolved, at0, seen, calls, last>>

\* The loop of propagate_effects without its test of the relation: every
\* out-edge is followed.
NextSupportWrong(a, fr) ==
  IF fr.k <= Len(a[fr.node]) THEN fr.k ELSE 0

\* Position of the next supports edge of frame fr, 0 if its loop is done.
NextSupport(a, fr) ==
  IF \E k \in fr.k..Len(a[fr.node]) : a[fr.node][k].relation = "supports"
  THEN CHOOSE k \in fr.k..Len(a[fr.node]) :
         /\ a[fr.node][k].relation = "supports"
         /\ \A m \in fr.k..(k - 1) : a[fr.node][m].relation # "supports"
  ELSE 0

\* The frames kept after the call of propagate_effects(child) from the
\* innermost frame, which goes on with edge k + 1 if the call returns.  Of
\* any RecursionLimit + 1 nested frames one is at a node that an outer frame
\* is at as well; the walk from that node comes back to it on every round,
\* so neither that frame nor a frame outside it runs again, and the
\* outermost of the RecursionLimit + 1 frames is dropped.
Call(st, k, child) ==
  LET top  == st[Len(st)]
      s    == [st EXCEPT ![Len(st)].k = k + 1]
      kept == IF Len(s) >= RecursionLimit THEN Tail(s) ELSE s
  IN  Append(kept, [node |-> child, k |-> 1,
                    depth |-> IF top.depth >= RecursionLimit
                              THEN RecursionLimit ELSE top.depth + 1])

\* propagate_effects, one step of the innermost frame: decay the next
\* supported child and recurse into it, or return to the calling frame.
\* The recursive call raises RecursionError when the interpreter's stack is
\* exhausted, which can be at any call beyond RecursionLimit frames.
propagate_effects ==
  /\ pc = "propagate"
  /\ LET top == stack[Len(stack)]
         k   == NextSupport(adj, top)
     IN  IF k = 0
         THEN /\ stack' = SubSeq(stack, 1, Len(stack) - 1)
              /\ pc' = IF Len(stack) = 1 THEN "archive" ELSE "propagate"
              /\ UNCHANGED <<attr, decays, outcome>>
         ELSE LET child == adj[top.node][k].to
              IN  IF ~attr[child].has
                  THEN \* reduce_confidence: G.nodes[child]["confidence"]
                       /\ Finish("KeyError")
                       /\ stack' = <<>>
                       /\ UNCHANGED <<attr, decays>>
                  ELSE /\ attr' = [attr EXCEPT ![child].confidence =
                                     Round3(attr[child].confidence, ChildFactor)]
                       /\ decays' = [decays EXCEPT ![child] =
                                       IF @ < DecayCap THEN @ + 1 ELSE @]
                       /\ \/ \* the frame of propagate_effects(child) does
                             \* not fit
                             /\ top.depth >= RecursionLimit
                             /\ Finish("RecursionError")
                             /\ stack' = <<>>
                          \/ /\ stack' = Call(stack, k, child)
                             /\ pc' = "propagate"
                             /\ outcome' = outcome
  /\ UNCHANGED <<nodes, adj, new, i, old, loser, op, pre, ret, resolved,
                 at0, seen, calls, last>>

\* archive_belief(loser), the last statement of self_correct; the detector's
\* loop then goes on with the next node.
archive_loser ==
  /\ pc = "archive"
  /\ attr' = [attr EXCEPT ![loser].status = ArchivedStatus(attr[loser].status)]
  /\ i' = i + 1
  /\ pc' = "detect"
  /\ UNCHANGED <<nodes, adj, new, old, loser, stack, ghost>>

\* --------------------------------------------------------- specification

Idle0 ==
  /\ pc = "idle"
  /\ new = None
  /\ i = 0
  /\ old = None
  /\ loser = None
  /\ stack = <<>>
  /\ op = [name |-> "init"]
  /\ pre = Snapshot
  /\ outcome = "ok"
  /\ ret = None
  /\ resolved = <<>>
  /\ decays = <<>>
  /\ at0 = attr
  /\ seen = {}
  /\ last = [op |-> [name |-> "init"], pre |-> Snapshot, outcome |-> "ok",
             ret |-> None]

\* The state after import: G = nx.DiGraph().
Init ==
  /\ nodes = <<>>
  /\ attr = <<>>
  /\ adj = <<>>
  /\ calls = 0
  /\ Idle0

Steps ==
  \/ detect_and_handle_contradictions
  \/ self_correct
  \/ reduce_confidence
  \/ propagate_effects
  \/ archive_loser

Next ==
  \/ \E id \in Ids, f \in SeqFacts, c \in SeqConfs, st \in StatusInputs,
        auto \in BOOLEAN : add_belief(id, f, c, st, auto)
  \/ \E e \in EdgeArgs : add_support_edge(e[1], e[2])
  \/ \E id \in Ids : archive_belief(id)
  \/ \E t \in Topics : ask(t[2], t[1])
  \/ \E t \in Topics : compute_reliability(t[1], t[2])
  \/ Steps

\* Every sequence of at most MaxCalls calls on the empty graph.
Spec == Init /\ [][Next]_vars

\* ---------------------------------------------- one call on a given store

\* What a node of a given store can be: a belief with any fact, confidence
\* and status (add_belief takes the status as a parameter).
Kinds ==
  { [has |-> TRUE, entity |-> f.entity, predicate |-> f.predicate,
     value |-> f.value, confidence |-> c, status |-> st] :
       f \in Facts, c \in ConfInputs, st \in Statuses }

StoreShapes == { <<>>, <<"n1">>, <<"n1", "n2">> }

\* The fact of the belief the call adds.  The stored beliefs range over all
\* facts, so every relation between the new belief and a stored one occurs.
NewFact == [entity |-> "e1", predicate |-> "p1", value |-> "v2"]

\* A store of up to two beliefs and no edges, as add_belief with
\* auto_check=False builds it, and one call left.
InitStore ==
  /\ nodes \in StoreShapes
  /\ \E a1 \in Kinds, a2 \in Kinds :
       attr = [n \in NodeSet |-> IF n = "n1" THEN a1 ELSE a2]
  /\ adj = [n \in NodeSet |-> <<>>]
  /\ calls = MaxCalls - 1
  /\ Idle0

NextStore ==
  \/ \E id \in Ids, c \in ConfInputs, st \in StatusInputs, auto \in BOOLEAN :
        add_belief(id, NewFact, c, st, auto)
  \/ \E e \in EdgeArgs : add_support_edge(e[1], e[2])
  \/ \E id \in Ids : archive_belief(id)
  \/ \E t \in Topics : ask(t[2], t[1])
  \/ \E t \in Topics : compute_reliability(t[1], t[2])
  \/ Steps

SpecStore == InitStore /\ [][NextStore]_vars

\* ------------------------------------- one resolution on a support graph

GraphNodes == <<"n1", "n2", "n3", "n4">>

\* n1 and n2 are on the topic of the new belief with another value; n3 and
\* n4 are beliefs on another topic.
GraphAttr ==
  [n \in {"n1", "n2", "n3", "n4"} |->
     IF n = "n1"
     THEN [has |-> TRUE, entity |-> "e1", predicate |-> "p1", value |-> "v1",
           confidence |-> 500, status |-> "active"]
     ELSE IF n = "n2"
     THEN [has |-> TRUE, entity |-> "e1", predicate |-> "p1", value |-> "v1",
           confidence |-> 900, status |-> "active"]
     ELSE IF n = "n3"
     THEN [has |-> TRUE, entity |-> "e2", predicate |-> "p1", value |-> "v1",
           confidence |-> 405, status |-> "active"]
     ELSE [has |-> TRUE, entity |-> "e2", predicate |-> "p1", value |-> "v1",
           confidence |-> 300, status |-> "active"]]

GraphPairs == { <<u, v>> : u \in {"n1", "n2", "n3", "n4"},
                           v \in {"n1", "n2", "n3", "n4"} }

\* Out-edges of u for the edge set E, children in id order.
AdjOf(E, u) ==
  LET kids == SelectSeq(GraphNodes, LAMBDA v : <<u, v>> \in E)
  IN  [k \in 1..Len(kids) |-> [to |-> kids[k], relation |-> "supports"]]

\* Four beliefs added with auto_check=False and up to MaxEdges supports
\* edges among them, self-loops and cycles included; one call left.
InitGraph ==
  /\ nodes = GraphNodes
  /\ attr = GraphAttr
  /\ \E E \in SUBSET GraphPairs :
       /\ Cardinality(E) <= MaxEdges
       /\ adj = [n \in NodeSet |-> AdjOf(E, n)]
  /\ calls = MaxCalls - 1
  /\ Idle0

NextGraph ==
  \/ \E c \in ConfInputs : add_belief("n5", NewFact, c, "active", TRUE)
  \/ Steps

SpecGraph == InitGraph /\ [][NextGraph]_vars

\* ------------------------------------------- one call on a support graph

\* Facts of the belief the call adds: the stored topics with both values and
\* a topic no stored belief has, with both values.
CallFacts ==
  Facts \cup { [entity |-> "e1", predicate |-> "p2", value |-> "v2"] }

\* Any one call on a store of four beliefs and their supports edges.
NextCalls ==
  \/ \E f \in CallFacts, c \in ConfInputs, auto \in BOOLEAN :
        add_belief("n5", f, c, "active", auto)
  \/ \E e \in EdgeArgs : add_support_edge(e[1], e[2])
  \/ \E id \in Ids : archive_belief(id)
  \/ \E t \in Topics : ask(t[2], t[1])
  \/ \E t \in Topics : compute_reliability(t[1], t[2])
  \/ Steps

SpecCalls == InitGraph /\ [][NextCalls]_vars

\* ------------------------------------------ two calls on a given store

\* A store of up to two beliefs and no edges, and two calls left.
InitPair ==
  /\ nodes \in StoreShapes
  /\ \E a1 \in Kinds, a2 \in Kinds :
       attr = [n \in NodeSet |-> IF n = "n1" THEN a1 ELSE a2]
  /\ adj = [n \in NodeSet |-> <<>>]
  /\ calls = MaxCalls - 2
  /\ Idle0

\* Queries and archive_belief calls.
NextPair ==
  \/ \E id \in Ids : archive_belief(id)
  \/ \E t \in Topics : ask(t[2], t[1])
  \/ \E t \in Topics : compute_reliability(t[1], t[2])

SpecPair == InitPair /\ [][NextPair]_vars

\* ----------------------------------------------------------------- claims

\* The last call was name and the store is back with the caller.
After(name) == pc = "idle" /\ op.name = name

StoreUnchanged == nodes = pre.nodes /\ attr = pre.attr /\ adj = pre.adj

InPre(n) == \E k \in 1..Len(pre.nodes) : pre.nodes[k] = n

\* C1: add_belief with a node id that is already in the store is rejected and
\* leaves the store as it was: same nodes, same attributes, same edges.
C1_DuplicateRejected ==
  (After("add_belief") /\ InPre(op.id))
    => (outcome # "ok" /\ StoreUnchanged /\ resolved = <<>>)

\* C2: add_support_edge with a parent or child that is not in the store fails
\* and leaves the store as it was, so that no node without attributes
\* appears and ask still succeeds.
C2_UnknownEdgeRejected ==
  (After("add_support_edge") /\ (~InPre(op.parent) \/ ~InPre(op.child)))
    => /\ outcome # "ok"
       /\ StoreUnchanged
       /\ \A n \in NodeSet : attr[n].has
       /\ \A t \in Topics : Ask(nodes, attr, t[2], t[1]) # "KeyError"

Rank(st) ==
  IF st = "active" THEN 1
  ELSE IF st = "outdated" THEN 2
  ELSE IF st = "archived" THEN 3
  ELSE IF st = "shadow_history" THEN 4
  ELSE 0

\* C3: with distinct ids (and the default status) no step of any call, the
\* steps inside one add_belief included, moves a node's status backward in
\* active < outdated < archived < shadow_history.
C3_StatusMonotone ==
  [][ ("dup" \notin seen' /\ "status" \notin seen')
        => \A n \in NodeSet :
             attr[n].has => Rank(attr'[n].status) >= Rank(attr[n].status) ]_vars

\* The attribute dict add_belief writes, from the arguments of the last call.
NewRec ==
  [has |-> TRUE, entity |-> op.fact.entity, predicate |-> op.fact.predicate,
   value |-> op.fact.value, confidence |-> op.confidence, status |-> op.status]

\* The attributes at entry to the detector of the last add_belief.
EntryAttr == [m \in DOMAIN pre.attr \cup {op.id} |->
                IF m = op.id THEN NewRec ELSE pre.attr[m]]

EntryNodes == IF InPre(op.id) THEN pre.nodes ELSE Append(pre.nodes, op.id)

\* Nodes other than the new one that had its entity and predicate at entry.
OnTopic == { x \in DOMAIN EntryAttr \ {op.id} :
               /\ EntryAttr[x].entity = op.fact.entity
               /\ EntryAttr[x].predicate = op.fact.predicate }

AskNew == Ask(nodes, attr, op.fact.predicate, op.fact.entity)

AfterAutoAdd == After("add_belief") /\ op.auto_check

\* C4 as written: B added with auto_check, exactly one A on B's topic with a
\* different value and status active; then B.confidence >= A.confidence makes
\* B active and ask return B's value, and otherwise A is active and ask
\* returns A's value.
C4_ActiveRivals ==
  { x \in OnTopic : EntryAttr[x].value # op.fact.value
                    /\ EntryAttr[x].status = "active" }

C4_DeterministicWinner ==
  (AfterAutoAdd /\ Cardinality(C4_ActiveRivals) = 1)
    => LET A == CHOOSE x \in C4_ActiveRivals : TRUE
       IN  IF op.confidence >= EntryAttr[A].confidence
           THEN attr[op.id].status = "active" /\ AskNew = op.fact.value
           ELSE attr[A].status = "active" /\ AskNew = EntryAttr[A].value

\* Nodes the detector resolves B against: on B's topic, another value,
\* status active or outdated at entry.
Rivals ==
  { x \in OnTopic : /\ EntryAttr[x].value # op.fact.value
                    /\ EntryAttr[x].status \in {"active", "outdated"} }

ActiveOnTopic == { x \in OnTopic : EntryAttr[x].status = "active" }

\* C4 amended: B added with auto_check, A active on B's topic with a
\* different value, no other node of the topic active and no outdated node
\* of the topic with a value other than B's.  Then B.confidence >=
\* A.confidence (a tie included) makes B active, and B.confidence <
\* A.confidence leaves A active; the winner is the only active node of the
\* topic, and ask returns its value (ask raises KeyError instead while some
\* node of the store has no attributes).
C4_Pre ==
  /\ AfterAutoAdd
  /\ Cardinality(C4_ActiveRivals) = 1
  /\ ActiveOnTopic = C4_ActiveRivals
  /\ Rivals = C4_ActiveRivals

C4_WinnerOnSoleRival ==
  C4_Pre
    => LET A == CHOOSE x \in C4_ActiveRivals : TRUE
           W == IF op.confidence >= EntryAttr[A].confidence THEN op.id ELSE A
       IN  /\ attr[W].status = "active"
           /\ \A x \in OnTopic \cup {op.id} :
                attr[x].status = "active" => x = W
           /\ AskNew = IF \A n \in NodeSet : attr[n].has
                       THEN IF W = op.id THEN op.fact.value
                            ELSE EntryAttr[A].value
                       ELSE "KeyError"

\* Witness of C4: a tie between B and its only rival A, B won and ask
\* returns B's value.
C4_Witness ==
  /\ C4_Pre
  /\ outcome = "ok"
  /\ op.confidence = EntryAttr[CHOOSE x \in C4_ActiveRivals : TRUE].confidence
  /\ resolved = <<CHOOSE x \in C4_ActiveRivals : TRUE>>
  /\ attr[op.id].status = "active"
  /\ AskNew = op.fact.value

\* B conflicted with exactly one active belief A, B.confidence > A.confidence,
\* and the call has returned.
C5_Pre ==
  /\ AfterAutoAdd
  /\ outcome = "ok"
  /\ Cardinality(C4_ActiveRivals) = 1
  /\ op.confidence > EntryAttr[CHOOSE x \in C4_ActiveRivals : TRUE].confidence

\* C5 as written: after add_belief(B) with auto_check has returned, B having
\* conflicted with exactly one active belief A and B.confidence >
\* A.confidence, the status of A is outdated.
C5_LoserOutdated ==
  C5_Pre => attr[CHOOSE x \in C4_ActiveRivals : TRUE].status = "outdated"

\* C5 amended: after add_belief(B) with auto_check has returned, A being
\* active and the only node of status active or outdated that conflicts with
\* B, and B.confidence > A.confidence, the status of A is archived
\* (self_correct sets it to outdated and archive_belief advances it one step
\* before the call returns).
C5_LoserArchived ==
  (C5_Pre /\ Rivals = C4_ActiveRivals)
    => attr[CHOOSE x \in C4_ActiveRivals : TRUE].status = "archived"

\* Witness of C5: such a call has returned, A was resolved against B and B
\* is active.
C5_Witness ==
  /\ C5_Pre
  /\ Rivals = C4_ActiveRivals
  /\ (CHOOSE x \in C4_ActiveRivals : TRUE)
       \in { resolved[k] : k \in 1..Len(resolved) }
  /\ attr[op.id].status = "active"
  /\ attr[CHOOSE x \in C4_ActiveRivals : TRUE].confidence =
       Round3(EntryAttr[CHOOSE x \in C4_ActiveRivals : TRUE].confidence,
              LoserFactor)

EdgeRelPre(u, v) ==
  IF u \in DOMAIN pre.adj THEN EdgeRel(pre.adj, u, v) ELSE None

\* C6: one add_belief(B) with auto_check runs the resolver exactly once, in
\* store order, on every node that at entry was on B's topic with another
\* value and status active or outdated, and on no other node; afterwards
\* B -> X is a contradicts edge for exactly these X and every other edge is
\* as it was.
C6_SnapshotCovered ==
  AfterAutoAdd
    => /\ resolved = SelectSeq(EntryNodes, LAMBDA x : x \in Rivals)
       /\ \A u \in NodeSet, v \in NodeSet :
            EdgeRel(adj, u, v) =
              IF u = op.id /\ v \in Rivals THEN "contradicts"
              ELSE EdgeRelPre(u, v)

\* C7: on every support graph built by add_support_edge between beliefs of
\* the store, self-loops and cycles included, propagation finishes: no
\* call ends in RecursionError.
C7_PropagationTerminates ==
  ("dup" \notin seen /\ "unknown" \notin seen) => outcome # "RecursionError"

\* C8: when the propagation of one self_correct has finished, reduce_confidence
\* has hit every node at most once in it.
C8_DecayAtMostOnce ==
  pc = "archive" => \A n \in DOMAIN decays : decays[n] <= 1

\* Children of n along supports edges.
Kids(n) ==
  { adj[n][k].to : k \in { j \in 1..Len(adj[n]) :
                             adj[n][j].relation = "supports" } }

\* Walks of exactly len edges along supports edges that start at n.
RECURSIVE Walks(_, _)
Walks(n, len) ==
  IF len = 0 THEN { <<n>> }
  ELSE UNION { { Append(w, c) : c \in Kids(w[Len(w)]) } :
                 w \in Walks(n, len - 1) }

AllWalks(n) == UNION { Walks(n, len) : len \in 1..Len(nodes) }

Desc(n) == { w[Len(w)] : w \in AllWalks(n) }

\* Every support-descendant of n is reached by exactly one walk, and no walk
\* leads back to n.
TreeShaped(n) ==
  /\ n \notin Desc(n)
  /\ \A w1 \in AllWalks(n), w2 \in AllWalks(n) :
       w1[Len(w1)] = w2[Len(w2)] => w1 = w2

\* C9: after one resolution over a tree-shaped support graph the loser has
\* round(old * 0.6, 3), every support-descendant round(own old * 0.9, 3), and
\* the winner and every node that is no support-descendant keep theirs.
C9_DecayCorrect ==
  (pc = "archive" /\ TreeShaped(loser))
    => LET winner == IF loser = new THEN old ELSE new
       IN  /\ attr[loser].confidence =
                Round3(at0[loser].confidence, LoserFactor)
           /\ \A d \in Desc(loser) :
                attr[d].confidence = Round3(at0[d].confidence, ChildFactor)
           /\ attr[winner].confidence = at0[winner].confidence
           /\ \A n \in NodeSet \ (Desc(loser) \cup {loser}) :
                attr[n].confidence = at0[n].confidence

\* Positions of the active nodes with the asked entity and predicate.
C10_Active ==
  { k \in 1..Len(nodes) :
      /\ attr[nodes[k]].entity = op.entity
      /\ attr[nodes[k]].predicate = op.predicate
      /\ attr[nodes[k]].status = "active" }

C10_Best ==
  { k \in C10_Active :
      \A m \in C10_Active :
        attr[nodes[m]].confidence <= attr[nodes[k]].confidence }

\* C10: ask returns None when no node with that entity and predicate is
\* active, and otherwise the value of the first node in insertion order among
\* the active ones of maximum confidence.
C10_AskResult ==
  After("ask")
    => /\ outcome = "ok"
       /\ ret = IF C10_Active = {} THEN None
                ELSE attr[nodes[CHOOSE k \in C10_Best :
                                  \A m \in C10_Best : k <= m]].value

\* No node of the store at entry has the entity and predicate of the new
\* belief.
C11_Unique ==
  \A n \in DOMAIN pre.attr :
    ~(/\ pre.attr[n].entity = op.fact.entity
      /\ pre.attr[n].predicate = op.fact.predicate)

\* C11: add_belief with auto_check of a belief whose (entity, predicate) no
\* existing node has returns without a resolution, creates no contradicts
\* edge, leaves every existing edge as it was and leaves the confidence and
\* the status of every other node as they were.
C11_NoConflictPath ==
  (AfterAutoAdd /\ C11_Unique)
    => /\ outcome = "ok"
       /\ resolved = <<>>
       /\ \A u \in NodeSet, v \in NodeSet :
            EdgeRel(adj, u, v) = EdgeRelPre(u, v)
       /\ \A n \in DOMAIN pre.attr \ {op.id} :
            /\ attr[n].confidence = pre.attr[n].confidence
            /\ attr[n].status = pre.attr[n].status

\* Witness of C11: such a belief was added to a store that holds a belief of
\* its entity with another value on another predicate, and a supports edge.
C11_Witness ==
  /\ AfterAutoAdd
  /\ C11_Unique
  /\ attr[op.id].status = "active"
  /\ \E n \in DOMAIN pre.attr :
       /\ pre.attr[n].entity = op.fact.entity
       /\ pre.attr[n].value # op.fact.value
  /\ \E u \in DOMAIN pre.adj : Len(pre.adj[u]) > 0

\* C12: over sequences of add_belief (distinct ids) and add_support_edge
\* (between beliefs of the store) calls, an edge u -> v that exists with a
\* relation exists with the same relation after every step.
C12_EdgesPermanent ==
  [][ ("dup" \notin seen' /\ "unknown" \notin seen')
        => \A u \in NodeSet, v \in NodeSet :
             EdgeRel(adj, u, v) # None
               => EdgeRel(adj', u, v) = EdgeRel(adj, u, v) ]_vars

\* b is a thousandth nearest to a * tenths / 10.
Nearest(b, a, tenths) ==
  /\ 10 * b - a * tenths <= 5
  /\ a * tenths - 10 * b <= 5

\* C13: with distinct ids no step of any call makes a node's confidence
\* larger; a step that changes it is the 0.6 decay of the loser of the
\* running resolution or the 0.9 decay of one of its support-descendants.
C13_ConfidenceNeverIncreases ==
  [][ "dup" \notin seen'
        => \A n \in NodeSet :
             attr[n].has
               => /\ attr'[n].confidence <= attr[n].confidence
                  /\ attr'[n].confidence # attr[n].confidence
                       => \/ /\ pc = "decay"
                             /\ n = loser
                             /\ Nearest(attr'[n].confidence,
                                        attr[n].confidence, LoserFactor)
                          \/ /\ pc = "propagate"
                             /\ n \in Desc(loser)
                             /\ Nearest(attr'[n].confidence,
                                        attr[n].confidence, ChildFactor) ]_vars

\* Witness of C13: a resolution has decayed its loser and a support-descendant
\* of it, and the winner has the confidence it had.
C13_Witness ==
  /\ pc = "archive"
  /\ attr[loser].confidence < at0[loser].confidence
  /\ \E d \in Desc(loser) \ {loser} : attr[d].confidence < at0[d].confidence
  /\ LET winner == IF loser = new THEN old ELSE new
     IN  attr[winner].confidence = at0[winner].confidence

\* The last call was a query.
AfterQuery == After("ask") \/ After("compute_reliability")

\* C14: ask and compute_reliability leave every node, attribute and edge as
\* it was, and a query that repeats the call before it, nothing having
\* happened in between, ends the same way with the same result.
C14_QueriesReadOnly ==
  AfterQuery
    => /\ StoreUnchanged
       /\ last.op = op => (outcome = last.outcome /\ ret = last.ret)

\* Witness of C14: compute_reliability has returned the same score twice in
\* a row, and so has ask with a value.
C14_Witness ==
  /\ AfterQuery
  /\ last.op = op
  /\ outcome = "ok"
  /\ IF op.name = "ask" THEN ret # None ELSE ret > 0
  /\ Len(nodes) = 2

\* C15: archive_belief(n) takes outdated to archived and archived to
\* shadow_history, leaves active and shadow_history as they are and changes
\* nothing but the status of n; the status never moves backward, and the
\* second of two calls in a row on a node that was outdated leaves it at
\* shadow_history.
C15_ArchivalLifecycle ==
  (After("archive_belief") /\ attr[op.id].has)
    => LET before == pre.attr[op.id].status
           now    == attr[op.id].status
       IN  /\ before = "outdated" => now = "archived"
           /\ before = "archived" => now = "shadow_history"
           /\ before \in {"active", "shadow_history"} => now = before
           /\ Rank(now) >= Rank(before)
           /\ nodes = pre.nodes
           /\ adj = pre.adj
           /\ attr = [pre.attr EXCEPT ![op.id].status = now]
           /\ (last.op = op /\ last.pre.attr[op.id].status = "outdated")
                => now = "shadow_history"

\* Witness of C15: two archive_belief calls in a row took a node from
\* outdated to shadow_history, the other node of the store being active.
C15_Witness ==
  /\ After("archive_belief")
  /\ last.op = op
  /\ last.pre.attr[op.id].status = "outdated"
  /\ pre.attr[op.id].status = "archived"
  /\ attr[op.id].status = "shadow_history"
  /\ \E m \in NodeSet \ {op.id} : attr[m].status = "active"

\* Nodes of any status with the entity and predicate of the last query.
C16_Members ==
  { n \in NodeSet : /\ attr[n].entity = op.entity
                    /\ attr[n].predicate = op.predicate }

C16_ActiveConfs ==
  { attr[n].confidence : n \in { x \in C16_Members :
                                   attr[x].status = "active" } }

\* m: the maximum confidence among the active members, 0 without any.
C16_Max ==
  IF C16_ActiveConfs = {} THEN 0
  ELSE CHOOSE c \in C16_ActiveConfs : \A d \in C16_ActiveConfs : d <= c

\* c: distinct values of the whole cluster minus one.
C16_Contradictions ==
  Cardinality({ attr[n].value : n \in C16_Members }) - 1

\* C16: compute_reliability returns None when no node of any status has the
\* entity and predicate, and otherwise the thousandth nearest to
\* m / (1 + 0.3 * c); a cluster without an active member scores 0.
C16_ReliabilityScore ==
  After("compute_reliability")
    => /\ outcome = "ok"
       /\ IF C16_Members = {} THEN ret = NoScore
          ELSE LET den == 10 + 3 * C16_Contradictions
               IN  /\ ret >= 0
                   /\ 2 * (ret * den - 10 * C16_Max) <= den
                   /\ 2 * (10 * C16_Max - ret * den) <= den
                   /\ C16_ActiveConfs = {} => ret = 0

\* Witness of C16: the cluster holds an active belief and an archived one with
\* another value, and the score is below the active belief's confidence.
C16_Witness ==
  /\ After("compute_reliability")
  /\ \E a \in C16_Members, b \in C16_Members :
       /\ attr[a].status = "active"
       /\ attr[b].status = "archived"
       /\ attr[a].value # attr[b].value
  /\ ret > 0
  /\ ret < C16_Max

\* self_correct has just returned to the detector's loop.
Resolved == pc = "detect" /\ resolved # <<>>

\* C17: inside a resolution the loser is outdated from the status update
\* to the archival step; when self_correct returns the loser is archived,
\* whatever its status was before, the winner is active, and no node whose
\* status the resolution changed is outdated or shadow_history.
C17_LoserArchived ==
  /\ pc \in {"decay", "propagate", "archive"}
       => attr[loser].status = "outdated"
  /\ pc \in {"propagate", "archive"} => decays[loser] >= 1
  /\ Resolved
       => /\ attr[loser].status = "archived"
          /\ attr[IF loser = new THEN old ELSE new].status = "active"
          /\ \A n \in NodeSet :
               attr[n].status \in {"outdated", "shadow_history"}
                 => attr[n].status = at0[n].status

\* Witness of C17: the new node has lost its second resolution; it was
\* archived before that resolution and is archived after it.
C17_Witness ==
  /\ Resolved
  /\ Len(resolved) = 2
  /\ loser = new
  /\ at0[new].status = "archived"
  /\ attr[new].status = "archived"

\* C18: from the start of a resolution to its return, the only nodes whose
\* confidence differs from what it was at the start are the loser and the
\* nodes reached from the loser along supports edges, parent to child.
C18_PropagationScope ==
  (pc \in {"decay", "propagate", "archive"} \/ Resolved)
    => \A n \in NodeSet \ (Desc(loser) \cup {loser}) :
         attr[n].confidence = at0[n].confidence

\* Witness of C18: propagation from a stored loser is done; a supports child
\* of it has decayed, a supporter of it that is no descendant has not, and
\* neither has the winner at the other end of the contradicts edge.
C18_Witness ==
  /\ pc = "archive"
  /\ loser = old
  /\ EdgeRel(adj, new, loser) = "contradicts"
  /\ attr[new].confidence = at0[new].confidence
  /\ \E d \in Kids(loser) : attr[d].confidence < at0[d].confidence
  /\ \E s \in NodeSet \ (Desc(loser) \cup {loser}) :
       /\ EdgeRel(adj, s, loser) = "supports"
       /\ attr[s].confidence = at0[s].confidence

\* C19: every belief added by add_belief with a distinct id, the default
\* status and auto_check; then after each add_belief that has returned, two
\* active beliefs with the same entity and predicate have the same value.
C19_ConflictsResolved ==
  (/\ After("add_belief")
   /\ outcome = "ok"
   /\ seen \cap {"dup", "status", "noauto", "unknown"} = {})
    => \A a \in NodeSet, b \in NodeSet :
         (/\ attr[a].status = "active"
          /\ attr[b].status = "active"
          /\ attr[a].entity = attr[b].entity
          /\ attr[a].predicate = attr[b].predicate)
           => attr[a].value = attr[b].value

\* Some node of the store (ns, at) with entity and predicate t is active.
Trusted(ns, at, t) ==
  \E k \in 1..Len(ns) : /\ at[ns[k]].entity = t[1]
                        /\ at[ns[k]].predicate = t[2]
                        /\ at[ns[k]].status = "active"

\* C20: beliefs are added with the default status; then a topic that had an
\* active belief when an add_belief, add_support_edge or archive_belief call
\* started has an active belief when the call has returned.
C20_TopicStaysTrusted ==
  (/\ pc = "idle"
   /\ outcome = "ok"
   /\ op.name \in {"add_belief", "add_support_edge", "archive_belief"}
   /\ "status" \notin seen)
    => \A t \in Topics :
         Trusted(pre.nodes, pre.attr, t) => Trusted(nodes, attr, t)

====
